---- MODULE Spec2Model ----
(***************************************************************************)
(* Model of selfpromobot.py: the poll loop of main with its `checked`      *)
(* list, the four category frequency checks, remove/report, and the        *)
(* self-promotion ratio check (check_sp_ratio / read_history).             *)
(*                                                                         *)
(* Time is counted in quarter hours (the granularity of the window         *)
(* constants timedelta(days=6, hours=23, minutes=45) and                   *)
(* timedelta(days=29, hours=23, minutes=45)).                              *)
(*                                                                         *)
(* Specifications: Spec and ChurnSpec (the poll loop with users and other  *)
(* moderators acting on the subreddit), FreqSpec and ScenarioSpec (the     *)
(* frequency checks on drawn author histories), RatioSpec (check_sp_ratio  *)
(* on drawn activity listings), ClassifySpec (is_selfpromotion on drawn    *)
(* posts), EnforceSpec (the poll loop with removals enabled, over the      *)
(* longest window).                                                        *)
(***************************************************************************)
EXTENDS Integers, Sequences, FiniteSets, TLC

VARIABLES
    posts,      \* the platform: submissions in creation order, index = id
    now,        \* the clock, in quarter hours
    DEBUG,      \* the global DEBUG flag (config "debug")
    checked,    \* main: the list of posts already checked (ids)
    page,       \* main: the listing fetched by subreddit.new(limit=posts_per_run)
    pc,         \* main: position in the loop: "fetch", "loop" or "prune"
    idx,        \* main: position of the for loop in page
    processed,  \* per id, how often the body of `if not post in checked` ran
    calls,      \* per id, how often post.mod.remove / send_removal_message / report was called
    last,       \* the outcome of the check run on the post of the current iteration
    moderated,  \* how many actions other moderators have taken
    category,   \* the category whose histories are drawn (FreqSpec)
    scans,      \* the outcomes of the checks run so far on the chosen post (FreqSpec)
    threshold,  \* float(config["threshold"]), in hundredths
    activity,   \* the author's activity listing user.new() (RatioSpec)
    verdict,    \* <<what is_selfpromotion returned for the drawn post>> (ClassifySpec)
    outcome     \* the outcome of check_sp_ratio (RatioSpec)

vars == <<posts, now, DEBUG, checked, page, pc, idx, processed, calls, last,
          moderated, category, scans, threshold, activity, verdict, outcome>>

-----------------------------------------------------------------------------
(* Bounds of the model *)

MaxPosts == 4        \* Spec: submissions in the subreddit over one run
MaxEvents == 1       \* Spec: deletions by authors and actions of other moderators
ChurnPosts == 6      \* ChurnSpec: submissions over one run, the backlog included
ChurnEvents == 4     \* ChurnSpec: deletions by authors and approvals by moderators
FreqNow == 2880      \* FreqSpec, ScenarioSpec: the time at which the checks are run
MaxEnforced == 4     \* EnforceSpec: submissions in the subreddit over one run
MaxHistory == 3      \* FreqSpec: submissions in the drawn author history
MaxDays == 4         \* ScenarioSpec: submissions in the drawn author history
MaxScans == 2        \* FreqSpec, ScenarioSpec: how often the checks are run on the chosen post
MaxActivity == 3     \* RatioSpec: items in the drawn activity listing

(* Configuration and program constants *)

posts_per_run == 1           \* config["posts_per_run"]
config_subreddit == "anime"  \* config["subreddit"]
config_history == 3          \* config["history"]
config_threshold == 50       \* config["threshold"] = 0.5, in hundredths
BotName == "selfpromobot"
None == "None"
QuartersPerDay == 96
FanartWindow == 671       \* timedelta(days=6, hours=23, minutes=45)
ClipWindow == 2879        \* timedelta(days=29, hours=23, minutes=45)
VideoEditWindow == 2879
VideoWindow == 671

Authors == {"u1"}
Flairs == {"Fanart", "Question"}   \* the tags users give their posts in Spec
Categories == <<"fanart", "clip", "video_edit", "video">>

-----------------------------------------------------------------------------
(* Helpers over sequences *)

Range(s) == {s[i] : i \in 1..Len(s)}

Min(a, b) == IF a < b THEN a ELSE b

\* Python's s[-n:] for n > 0
\* the cut that keeps one entry too many
LastN_one_more(s, n) == IF Len(s) <= n + 1 THEN s ELSE SubSeq(s, Len(s) - n, Len(s))

LastN(s, n) == IF Len(s) <= n THEN s ELSE SubSeq(s, Len(s) - n + 1, Len(s))

\* Python's s[:n]
FirstN(s, n) == SubSeq(s, 1, Min(n, Len(s)))

-----------------------------------------------------------------------------
(* The platform (praw) as the bot sees it.  A submission is a record       *)
(*   [id, author, subreddit, link_flair_text, created_utc, removed,        *)
(*    banned_by, deleted];                                                 *)
(* a submission deleted by its author is in no listing.                    *)

RECURSIVE submissions_new(_, _, _)
\* post.author.submissions.new(): the author's submissions, in the order
\* the platform delivers them (last created first)
submissions_new(P, n, author) ==
    IF n = 0 THEN <<>>
    ELSE (IF P[n].author = author /\ ~P[n].deleted THEN <<P[n]>> ELSE <<>>)
         \o submissions_new(P, n - 1, author)

RECURSIVE subreddit_listing(_, _)
subreddit_listing(P, n) ==
    IF n = 0 THEN <<>>
    ELSE (IF P[n].subreddit = config_subreddit /\ ~P[n].deleted THEN <<P[n]>> ELSE <<>>)
         \o subreddit_listing(P, n - 1)

\* subreddit.new(limit=posts_per_run)
subreddit_new(P, limit) == FirstN(subreddit_listing(P, Len(P)), limit)

-----------------------------------------------------------------------------
(* Classification and the action layer *)

is_removed(item) == item.removed \/ item.banned_by /= None

is_fanart(post) ==
    post.subreddit = config_subreddit /\ post.link_flair_text = "Fanart"

is_clip(post) ==
    post.subreddit = config_subreddit /\ post.link_flair_text = "Clip"

is_video_edit(post) ==
    post.subreddit = config_subreddit /\ post.link_flair_text = "Video Edit"

is_video(post) ==
    post.subreddit = config_subreddit /\ post.link_flair_text = "Video"

\* the predicate each check is guarded by in main and counts with
is_category(cat, post) ==
    CASE cat = "fanart" -> is_fanart(post)
      [] cat = "clip" -> is_clip(post)
      [] cat = "video_edit" -> is_video_edit(post)
      [] cat = "video" -> is_video(post)

\* the timedelta each check compares the age of a submission with
Window(cat) ==
    CASE cat = "fanart" -> FanartWindow
      [] cat = "clip" -> ClipWindow
      [] cat = "video_edit" -> VideoEditWindow
      [] cat = "video" -> VideoWindow

Message(cat) ==
    CASE cat = "fanart" -> "You may only submit two fanart posts in a 7-day period."
      [] cat = "clip" -> "You may only submit two clips every 30 days."
      [] cat = "video_edit" -> "You may only submit two video edits every 30 days."
      [] cat = "video" -> "You can only submit 2 videos at most every 7 days."

\* remove without the DEBUG test
remove_in_debug(post, reason, message) ==
    IF is_removed(post)
    THEN [api |-> <<>>, log |-> <<"Removing post", "Post already removed">>]
    ELSE [api |-> <<[op |-> "mod.remove", id |-> post.id]>>
                  \o (IF message /= None
                      THEN <<[op |-> "mod.send_removal_message", id |-> post.id]>>
                      ELSE <<>>),
          log |-> <<"Removing post">>]

\* remove without the is_removed test
remove_unchecked(post, reason, message) ==
    IF DEBUG
    THEN [api |-> <<>>, log |-> <<"Not removing in debug mode">>]
    ELSE [api |-> <<[op |-> "mod.remove", id |-> post.id]>>
                  \o (IF message /= None
                      THEN <<[op |-> "mod.send_removal_message", id |-> post.id]>>
                      ELSE <<>>),
          log |-> <<"Removing post">>]

\* remove(post, reason, message): the external calls it issues and what it logs
remove(post, reason, message) ==
    IF DEBUG
    THEN [api |-> <<>>, log |-> <<"Not removing in debug mode">>]
    ELSE IF is_removed(post)
         THEN [api |-> <<>>, log |-> <<"Removing post", "Post already removed">>]
         ELSE [api |-> <<[op |-> "mod.remove", id |-> post.id]>>
                       \o (IF message /= None
                           THEN <<[op |-> "mod.send_removal_message", id |-> post.id]>>
                           ELSE <<>>),
               log |-> <<"Removing post">>]

\* report(post, reason)
report(post, reason) ==
    IF DEBUG
    THEN [api |-> <<>>, log |-> <<"Not reporting in debug mode">>]
    ELSE [api |-> <<[op |-> "report", id |-> post.id]>>, log |-> <<"Reporting post">>]

-----------------------------------------------------------------------------
(* The window frequency checks *)

\* `count > 2` with the limit off by one
RepeatLimit_3 == 2 + 1

\* `if count > 2`: the number of counted submissions a check tolerates
RepeatLimit == 2

\* lines 260-261: a removed submission of the subreddit is passed over
skipped(submission) ==
    submission.subreddit = config_subreddit /\ is_removed(submission)

\* the window test with >= for >: the scan ends at a submission exactly as
\* old as the window
expired_at_boundary(cat, submission, t) ==
    t - submission.created_utc >= Window(cat)

\* the window test with the round 7 and 30 days for the window
expired_round_days(cat, submission, t) ==
    t - submission.created_utc > Window(cat) + 1

\* lines 263-265: the submission is older than the window, the scan ends
expired(cat, submission, t) ==
    t - submission.created_utc > Window(cat)

\* the mod note of the other three checks, which names no submission
Reason_no_id(cat, submission) ==
    [text |-> "Too many clips submitted", id |-> 0]

\* the mod note of the removal: only the fanart check names a submission
Reason(cat, submission) ==
    CASE cat = "fanart" -> [text |-> "Recent fanart", id |-> submission.id]
      [] cat = "clip" -> [text |-> "Too many clips submitted", id |-> 0]
      [] cat = "video_edit" -> [text |-> "Too many clips submitted", id |-> 0]
      [] cat = "video" -> [text |-> "Too many videos submitted", id |-> 0]

RECURSIVE scan(_, _, _, _, _, _, _)
\* the loop `for submission in post.author.submissions.new()` of a check,
\* from position i with the running count; `counted` collects the ids of the
\* submissions the count was incremented for
scan(cat, post, hist, i, count, counted, t) ==
    IF i > Len(hist)
    THEN [count |-> count, counted |-> counted, exit |-> "exhausted",
          invoked |-> FALSE, reason |-> [text |-> None, id |-> 0],
          api |-> <<>>, log |-> <<>>]
    ELSE LET submission == hist[i] IN
         IF skipped(submission)
         THEN scan(cat, post, hist, i + 1, count, counted, t)
         ELSE IF expired(cat, submission, t)
         THEN [count |-> count, counted |-> counted, exit |-> "window",
               invoked |-> FALSE, reason |-> [text |-> None, id |-> 0],
               api |-> <<>>, log |-> <<>>]
         ELSE LET hit == is_category(cat, submission)
                  count2 == IF hit THEN count + 1 ELSE count
                  counted2 == IF hit THEN counted \cup {submission.id} ELSE counted
              IN  IF count2 > RepeatLimit
                  THEN LET r == remove(post, Reason(cat, submission), Message(cat))
                       IN  [count |-> count2, counted |-> counted2, exit |-> "limit",
                            invoked |-> TRUE, reason |-> Reason(cat, submission),
                            api |-> r.api, log |-> r.log]
                  ELSE scan(cat, post, hist, i + 1, count2, counted2, t)

\* the check with remove called on the newest listed submission instead of
\* the post it was given
check_frequency_on_newest(cat, P, post, t) ==
    LET hist == submissions_new(P, Len(P), post.author)
    IN  scan(cat, hist[1], hist, 1, 0, {}, t)

\* check_<cat>_frequency(reddit, config, post) on the platform state P at time t
check_frequency(cat, P, post, t) ==
    scan(cat, post, submissions_new(P, Len(P), post.author), 1, 0, {}, t)

check_fanart_frequency(P, post, t) == check_frequency("fanart", P, post, t)
check_clip_frequency(P, post, t) == check_frequency("clip", P, post, t)
check_video_edit_frequency(P, post, t) == check_frequency("video_edit", P, post, t)
check_video_frequency(P, post, t) == check_frequency("video", P, post, t)

check(cat, P, post, t) ==
    CASE cat = "fanart" -> check_fanart_frequency(P, post, t)
      [] cat = "clip" -> check_clip_frequency(P, post, t)
      [] cat = "video_edit" -> check_video_edit_frequency(P, post, t)
      [] cat = "video" -> check_video_frequency(P, post, t)

RECURSIVE Apply(_, _, _)
\* the platform after the calls api[k..]: post.mod.remove marks the submission
\* removed by the bot; a notice or a report changes no submission
Apply(P, api, k) ==
    IF k > Len(api) THEN P
    ELSE LET c == api[k]
             P2 == IF c.op = "mod.remove" /\ ~P[c.id].deleted
                   THEN [P EXCEPT ![c.id].removed = TRUE, ![c.id].banned_by = BotName]
                   ELSE P
         IN  Apply(P2, api, k + 1)

RECURSIVE Tally(_, _, _)
\* the per-id call counters after the calls api[k..]
Tally(C, api, k) ==
    IF k > Len(api) THEN C
    ELSE LET c == api[k]
         IN  Tally([C EXCEPT ![c.id][c.op] = @ + 1], api, k + 1)

\* no call has been issued on any of the submissions 1..n
NoCalls(n) == [i \in 1..n |-> [op \in {"mod.remove", "mod.send_removal_message", "report"} |-> 0]]

RECURSIVE run_checks(_, _, _, _, _)
\* lines 49-67 of main: the four `if is_<cat>(post): check_<cat>_frequency(...)`
\* in order from the k-th on; acc carries the platform, the calls issued and
\* the outcome of the last check that ran, with the post it was given
run_checks(k, post, t, P, acc) ==
    IF k > Len(Categories) THEN [acc EXCEPT !.P = P]
    ELSE LET cat == Categories[k] IN
         IF is_category(cat, post)
         THEN LET r == check(cat, P, post, t)
              IN  run_checks(k + 1, post, t, Apply(P, r.api, 1),
                             [acc EXCEPT !.api = @ \o r.api,
                                         !.ran = @ + 1,
                                         !.res = r @@ [cat |-> cat, post |-> post]])
         ELSE run_checks(k + 1, post, t, P, acc)

\* check_sp_ratio has not been run
NoOutcome ==
    [status |-> None, history |-> <<>>, denominator |-> 0, ratio |-> 0,
     api |-> <<>>, log |-> <<>>]

NoResult == [cat |-> None, post |-> <<>>, count |-> 0, counted |-> {}, exit |-> None,
             invoked |-> FALSE, reason |-> [text |-> None, id |-> 0],
             api |-> <<>>, log |-> <<>>]

-----------------------------------------------------------------------------
(* main: the poll loop, and the platform's other actors *)

NewPost(i, a, f, t) ==
    [id |-> i, author |-> a, subreddit |-> config_subreddit, link_flair_text |-> f,
     created_utc |-> t, removed |-> FALSE, banned_by |-> None, deleted |-> FALSE]

\* what is left of a submission its author deleted
Tombstone(i) ==
    [id |-> i, author |-> None, subreddit |-> config_subreddit, link_flair_text |-> None,
     created_utc |-> 0, removed |-> FALSE, banned_by |-> None, deleted |-> TRUE]

\* the state of main before its first poll, over the subreddit P, which will
\* hold at most n submissions
Started(P, n) ==
    /\ posts = P
    /\ now = 0
    /\ DEBUG \in BOOLEAN
    /\ checked = <<>>
    /\ page = <<>>
    /\ pc = "fetch"
    /\ idx = 1
    /\ processed = [i \in 1..n |-> 0]
    /\ calls = NoCalls(n)
    /\ last = NoResult
    /\ moderated = 0
    /\ category = None
    /\ scans = <<>>
    /\ threshold = config_threshold
    /\ activity = <<>>
    /\ verdict = <<>>
    /\ outcome = NoOutcome

Init == Started(<<>>, MaxPosts)

botVars == <<checked, page, pc, idx, processed, calls, last>>
otherVars == <<category, scans, threshold, activity, verdict, outcome>>

\* deletions by authors and actions of other moderators so far
Events == Cardinality({j \in 1..Len(posts) : posts[j].deleted}) + moderated

\* a user submits a post to the subreddit
UserSubmits(cap) ==
    /\ Len(posts) < cap
    /\ \E a \in Authors, f \in Flairs :
         posts' = Append(posts, NewPost(Len(posts) + 1, a, f, now))
    /\ UNCHANGED <<now, DEBUG, botVars, moderated, otherVars>>

\* an author deletes a submission: it leaves every listing
UserDeletes(cap) ==
    /\ Events < cap
    /\ \E i \in 1..Len(posts) :
         /\ ~posts[i].deleted
         /\ posts' = [posts EXCEPT ![i] = Tombstone(i)]
    /\ UNCHANGED <<now, DEBUG, botVars, moderated, otherVars>>

\* another moderator removes a submission
ModRemoves(cap) ==
    /\ Events < cap
    /\ \E i \in 1..Len(posts) :
         /\ ~posts[i].deleted
         /\ ~is_removed(posts[i])
         /\ posts' = [posts EXCEPT ![i].removed = TRUE, ![i].banned_by = "mod"]
    /\ moderated' = moderated + 1
    /\ UNCHANGED <<now, DEBUG, botVars, otherVars>>

\* another moderator approves a removed submission
ModApproves(cap) ==
    /\ Events < cap
    /\ \E i \in 1..Len(posts) :
         /\ ~posts[i].deleted
         /\ is_removed(posts[i])
         /\ posts' = [posts EXCEPT ![i].removed = FALSE, ![i].banned_by = None]
    /\ moderated' = moderated + 1
    /\ UNCHANGED <<now, DEBUG, botVars, otherVars>>

Submit == UserSubmits(MaxPosts)

Delete == UserDeletes(MaxEvents)

ModRemove == ModRemoves(MaxEvents)

ModApprove == ModApproves(MaxEvents)

\* line 45: subreddit.new(limit=posts_per_run) is fetched
Fetch ==
    /\ pc = "fetch"
    /\ page' = subreddit_new(posts, posts_per_run)
    /\ idx' = 1
    /\ pc' = "loop"
    /\ UNCHANGED <<posts, now, DEBUG, checked, processed, calls, last, moderated, otherVars>>

\* a post in checked is passed over but appended again
Skip_appends ==
    /\ pc = "loop"
    /\ idx <= Len(page)
    /\ page[idx].id \in Range(checked)
    /\ checked' = Append(checked, page[idx].id)
    /\ idx' = idx + 1
    /\ UNCHANGED <<posts, now, DEBUG, page, pc, processed, calls, last,
                   moderated, otherVars>>

\* line 46, post in checked: the post is passed over
Skip ==
    /\ pc = "loop"
    /\ idx <= Len(page)
    /\ page[idx].id \in Range(checked)
    /\ idx' = idx + 1
    /\ UNCHANGED <<posts, now, DEBUG, checked, page, pc, processed, calls, last,
                   moderated, otherVars>>

\* the body of the loop without the test `if not post in checked`
Process_unguarded ==
    /\ pc = "loop"
    /\ idx <= Len(page)
    /\ \E post \in {page[idx]} :
         \E r \in {run_checks(1, post, now, posts,
                               [P |-> posts, api |-> <<>>, ran |-> 0, res |-> NoResult])} :
            /\ posts' = r.P
            /\ calls' = Tally(calls, r.api, 1)
            /\ last' = r.res
            /\ checked' = Append(checked, post.id)
            /\ processed' = [processed EXCEPT ![post.id] = @ + 1]
    /\ idx' = idx + 1
    /\ UNCHANGED <<now, DEBUG, page, pc, moderated, otherVars>>

\* lines 46-68: a post not in checked has its checks run and is appended
Process ==
    /\ pc = "loop"
    /\ idx <= Len(page)
    /\ page[idx].id \notin Range(checked)
    /\ \E post \in {page[idx]} :
         \E r \in {run_checks(1, post, now, posts,
                               [P |-> posts, api |-> <<>>, ran |-> 0, res |-> NoResult])} :
            /\ posts' = r.P
            /\ calls' = Tally(calls, r.api, 1)
            /\ last' = r.res
            /\ checked' = Append(checked, post.id)
            /\ processed' = [processed EXCEPT ![post.id] = @ + 1]
    /\ idx' = idx + 1
    /\ UNCHANGED <<now, DEBUG, page, pc, moderated, otherVars>>

\* lines 70-73: the list is cut to its last 3 * posts_per_run entries, then the
\* loop sleeps; the locals of the iteration are dead from here on
Prune ==
    /\ pc = "loop"
    /\ idx > Len(page)
    /\ checked' = LastN(checked, 3 * posts_per_run)
    /\ pc' = "fetch"
    /\ page' = <<>>
    /\ idx' = 1
    /\ last' = NoResult
    /\ UNCHANGED <<posts, now, DEBUG, processed, calls, moderated, otherVars>>

Next ==
    \/ Submit
    \/ Delete
    \/ ModRemove
    \/ ModApprove
    \/ Fetch
    \/ Skip
    \/ Process
    \/ Prune

Spec == Init /\ [][Next]_vars

-----------------------------------------------------------------------------
(* ChurnSpec: the poll loop started on a subreddit that already holds two  *)
(* fanart posts of one author, with more posts and more churn of the feed. *)

\* the subreddit when the bot is started: two fanart posts of the same author
Backlog == <<NewPost(1, "u1", "Fanart", 0), NewPost(2, "u1", "Fanart", 0)>>

ChurnInit == Started(Backlog, ChurnPosts)

ChurnSubmit == UserSubmits(ChurnPosts)

ChurnDelete == UserDeletes(ChurnEvents)

ChurnApprove == ModApproves(ChurnEvents)

ChurnNext ==
    \/ ChurnSubmit
    \/ ChurnDelete
    \/ ChurnApprove
    \/ Fetch
    \/ Skip
    \/ Process
    \/ Prune

ChurnSpec == ChurnInit /\ [][ChurnNext]_vars

-----------------------------------------------------------------------------
(* EnforceSpec: the poll loop in non-dry mode on a subreddit where users    *)
(* submit tagged posts, at most posts_per_run of them between two polls,    *)
(* nobody else removes, approves or deletes a post, and time passes while   *)
(* the loop sleeps.                                                         *)

\* the tags users give their posts in EnforceSpec: one category of each window
EnforceFlairs == {"Fanart", "Clip"}

\* the time the loop may sleep between two polls
Sleeps == {FanartWindow, FanartWindow + 1, ClipWindow - 2 * FanartWindow}

\* the run is followed until the 30-day window has passed once
MaxTime == ClipWindow + 1

EnforceInit == Started(<<>>, MaxEnforced) /\ ~DEBUG

\* a user submits a post between two polls, when no earlier post waits for
\* its poll
EnforceSubmit ==
    /\ pc = "fetch"
    /\ Len(posts) < MaxEnforced
    /\ Cardinality({i \in 1..Len(posts) : processed[i] = 0}) < posts_per_run
    /\ \E a \in Authors, f \in EnforceFlairs :
         posts' = Append(posts, NewPost(Len(posts) + 1, a, f, now))
    /\ UNCHANGED <<now, DEBUG, botVars, moderated, otherVars>>

\* line 73: time.sleep between two polls
Sleep ==
    /\ pc = "fetch"
    /\ \E d \in Sleeps :
         /\ now + d <= MaxTime
         /\ now' = now + d
    /\ UNCHANGED <<posts, DEBUG, botVars, moderated, otherVars>>

EnforceNext ==
    \/ EnforceSubmit
    \/ Sleep
    \/ Fetch
    \/ Skip
    \/ Process
    \/ Prune

EnforceSpec == EnforceInit /\ [][EnforceNext]_vars

-----------------------------------------------------------------------------
(* FreqSpec: the frequency checks run on drawn author histories.  The       *)
(* history is drawn in any order of ages, the triggering post is an in-area *)
(* post of the category (main calls a check only if is_<cat>(post)), and    *)
(* the checks are run as main runs them, each time on the post as last      *)
(* fetched.                                                                  *)

Tag(cat) ==
    CASE cat = "fanart" -> "Fanart"
      [] cat = "clip" -> "Clip"
      [] cat = "video_edit" -> "Video Edit"
      [] cat = "video" -> "Video"

\* the window of the category, from the program constants
Horizon(cat) == IF cat \in {"fanart", "video"} THEN FanartWindow ELSE ClipWindow

\* the ages histories are drawn from: today, and 5, 2 and 0 days into a window
\* that ends now, and a quarter of an hour more than the window
Age(kind, cat) ==
    CASE kind = "today" -> 0
      [] kind = "day5" -> Horizon(cat) - 5 * QuartersPerDay
      [] kind = "day2" -> Horizon(cat) - 2 * QuartersPerDay
      [] kind = "day0" -> Horizon(cat)
      [] kind = "out" -> Horizon(cat) + 1

Sample(kind, tagged, removed, banned_by, subreddit) ==
    [kind |-> kind, tagged |-> tagged, removed |-> removed, banned_by |-> banned_by,
     subreddit |-> subreddit]

\* the submissions histories are drawn from: live tagged ones of today, of the
\* first quarter hour of the window and of the last before it; tagged ones
\* removed by a moderator, inside the window and before it; one with
\* banned_by alone set; one with another tag; one removed in another subreddit
Samples ==
    { Sample("today", TRUE, FALSE, None, config_subreddit),
      Sample("day0", TRUE, FALSE, None, config_subreddit),
      Sample("out", TRUE, FALSE, None, config_subreddit),
      Sample("day0", TRUE, TRUE, "mod", config_subreddit),
      Sample("out", TRUE, TRUE, "mod", config_subreddit),
      Sample("today", TRUE, FALSE, "mod", config_subreddit),
      Sample("today", FALSE, FALSE, None, config_subreddit),
      Sample("today", TRUE, TRUE, "mod", "other") }

\* the submission with id i drawn as sample s for the category cat
Drawn(i, s, cat) ==
    [id |-> i, author |-> "u1", subreddit |-> s.subreddit,
     link_flair_text |-> IF s.tagged THEN Tag(cat) ELSE "Question",
     created_utc |-> FreqNow - Age(s.kind, cat),
     removed |-> s.removed, banned_by |-> s.banned_by, deleted |-> FALSE]

\* no submission drawn yet, for a category of cats and a history of at most n
Drawing(cats, n) ==
    /\ category \in cats
    /\ posts = <<>>
    /\ page = <<>>
    /\ now = FreqNow
    /\ DEBUG \in BOOLEAN
    /\ checked = <<>>
    /\ pc = "draw"
    /\ idx = 1
    /\ processed = [i \in 1..n |-> 0]
    /\ calls = NoCalls(n)
    /\ last = NoResult
    /\ moderated = 0
    /\ scans = <<>>
    /\ threshold = config_threshold
    /\ activity = <<>>
    /\ verdict = <<>>
    /\ outcome = NoOutcome

FreqInit == Drawing(Range(Categories), MaxHistory)

\* the author's listing holds one more submission, drawn from S
Draws(S, cap) ==
    /\ pc = "draw"
    /\ Len(posts) < cap
    /\ \E s \in S :
         posts' = Append(posts, Drawn(Len(posts) + 1, s, category))
    /\ UNCHANGED <<now, DEBUG, botVars, moderated, otherVars>>

Draw == Draws(Samples, MaxHistory)

\* line 45: a post of the category arrives with the feed page
Pick ==
    /\ pc = "draw"
    /\ \E p \in 1..Len(posts) :
         /\ is_category(category, posts[p])
         /\ page' = <<posts[p]>>
    /\ pc' = "check"
    /\ UNCHANGED <<posts, now, DEBUG, checked, idx, processed, calls, last,
                   moderated, otherVars>>

\* lines 49-67 of main on the post, then the post is fetched anew
RunCheck ==
    /\ pc = "check"
    /\ Len(scans) < MaxScans
    /\ \E post \in {page[1]} :
         \E r \in {run_checks(1, post, now, posts,
                               [P |-> posts, api |-> <<>>, ran |-> 0, res |-> NoResult])} :
            /\ posts' = r.P
            /\ calls' = Tally(calls, r.api, 1)
            /\ last' = r.res
            /\ scans' = Append(scans, r.res)
            /\ page' = <<r.P[post.id]>>
    /\ UNCHANGED <<now, DEBUG, checked, pc, idx, processed, moderated, activity,
                   outcome, category, threshold, verdict>>

FreqNext ==
    \/ Draw
    \/ Pick
    \/ RunCheck

FreqSpec == FreqInit /\ [][FreqNext]_vars

-----------------------------------------------------------------------------
(* ScenarioSpec: the fanart check run on histories of fanart posts of       *)
(* today and of days 5, 2 and 0 of the window, the last one live or removed *)

DaySamples ==
    { Sample("today", TRUE, FALSE, None, config_subreddit),
      Sample("day5", TRUE, FALSE, None, config_subreddit),
      Sample("day2", TRUE, FALSE, None, config_subreddit),
      Sample("day0", TRUE, FALSE, None, config_subreddit),
      Sample("day0", TRUE, TRUE, "mod", config_subreddit) }

ScenarioInit == Drawing({"fanart"}, MaxDays)

DrawDay == Draws(DaySamples, MaxDays)

ScenarioNext ==
    \/ DrawDay
    \/ Pick
    \/ RunCheck

ScenarioSpec == ScenarioInit /\ [][ScenarioNext]_vars

-----------------------------------------------------------------------------
(* The self-promotion ratio check.  A text (title, url, selftext, body) is *)
(* the set of the fragments it is made of; `x in text` is membership and   *)
(* lower() maps each fragment to its lower-case form.                      *)

lower(x) ==
    CASE x = "I MADE" -> "i made"
      [] x = "PATREON.COM" -> "patreon.com"
      [] x = "IMGUR.COM" -> "imgur.com"
      [] OTHER -> x

Lower(text) == {lower(x) : x \in text}

\* is_selfpromotion with the title and url heuristics ahead of the tags that
\* return False
is_selfpromotion_text_first(post) ==
    IF post.is_original_content THEN TRUE
    ELSE IF post.link_flair_text = "OC Fanart" THEN TRUE
    ELSE IF post.link_flair_text = "Fanart" /\ ~post.is_self THEN TRUE
    ELSE IF post.link_flair_text = "Fanart Misc" /\ ~post.is_self THEN TRUE
    ELSE LET title == Lower(post.title) IN
         IF "[oc]" \in title \/ "(oc)" \in title \/ "original" \in title THEN TRUE
         ELSE IF "i made" \in title \/ "i drew" \in title \/ "my " \in title THEN TRUE
         ELSE IF "i tried" \in title \/ "attempt" \in title THEN TRUE
         ELSE IF "sketch" \in title \/ "drawing" \in title THEN TRUE
         ELSE IF (post.is_video \/ post.is_reddit_media_domain)
                 /\ post.subreddit = config_subreddit THEN TRUE
         ELSE IF "imgur.com" \in post.url THEN TRUE
         ELSE IF "youtube.com" \in post.url \/ "youtu.be" \in post.url THEN TRUE
         ELSE IF post.link_flair_text \in {"Question", "News", "Rewatch", "Official Media", "Clip"}
         THEN FALSE
         ELSE \E domain \in {"deviantart.com", "instagram.com", "artstation.com"} :
                 \/ post.is_self /\ domain \in post.selftext
                 \/ domain \in post.url

\* is_selfpromotion(post)
is_selfpromotion(post) ==
    IF post.is_original_content THEN TRUE
    ELSE IF post.link_flair_text = "OC Fanart" THEN TRUE
    ELSE IF post.link_flair_text = "Fanart" /\ ~post.is_self THEN TRUE
    ELSE IF post.link_flair_text = "Fanart Misc" /\ ~post.is_self THEN TRUE
    ELSE IF post.link_flair_text \in {"Question", "News", "Rewatch", "Official Media", "Clip"}
    THEN FALSE
    ELSE LET title == Lower(post.title) IN
         IF "[oc]" \in title \/ "(oc)" \in title \/ "original" \in title THEN TRUE
         ELSE IF "i made" \in title \/ "i drew" \in title \/ "my " \in title THEN TRUE
         ELSE IF "i tried" \in title \/ "attempt" \in title THEN TRUE
         ELSE IF "sketch" \in title \/ "drawing" \in title THEN TRUE
         ELSE IF (post.is_video \/ post.is_reddit_media_domain)
                 /\ post.subreddit = config_subreddit THEN TRUE
         ELSE IF "imgur.com" \in post.url THEN TRUE
         ELSE IF "youtube.com" \in post.url \/ "youtu.be" \in post.url THEN TRUE
         ELSE \E domain \in {"deviantart.com", "instagram.com", "artstation.com"} :
                 \/ post.is_self /\ domain \in post.selftext
                 \/ domain \in post.url

\* is_selfpromotion_comment(comment)
is_selfpromotion_comment(comment) ==
    \E domain \in {"deviantart.com", "instagram.com", "artstation.com",
                   "patreon.com", "pixiv.net"} :
        domain \in Lower(comment.body)

EmptyHistory ==
    [selfpromo_posts |-> 0, other_posts |-> 0, selfpromo_comments |-> 0,
     ignored_comments |-> 0, other_comments |-> 0, found_items |-> 0]

\* the skip without the test of the subreddit: removed items are passed over
\* wherever they were posted
bucket_skip_anywhere(item) ==
    IF is_removed(item) THEN "skip"
    ELSE IF item.kind = "Submission"
         THEN IF is_selfpromotion(item) THEN "selfpromo_posts" ELSE "other_posts"
    ELSE IF item.kind = "Comment"
         THEN IF item.is_submitter /\ is_selfpromotion(item.submission)
              THEN "ignored_comments"
              ELSE IF is_selfpromotion_comment(item) THEN "selfpromo_comments"
              ELSE "other_comments"
    ELSE "unknown"

\* the classification without the branch for the author's own comments under
\* a self-promotion post
bucket_no_ignored(item) ==
    IF item.subreddit = config_subreddit /\ is_removed(item) THEN "skip"
    ELSE IF item.kind = "Submission"
         THEN IF is_selfpromotion(item) THEN "selfpromo_posts" ELSE "other_posts"
    ELSE IF item.kind = "Comment"
         THEN IF is_selfpromotion_comment(item) THEN "selfpromo_comments"
              ELSE "other_comments"
    ELSE "unknown"

\* lines 161-179: the bucket one item of the listing is counted in; "skip" for
\* a removed item of the subreddit, "unknown" for what is neither a submission
\* nor a comment
bucket(item) ==
    IF item.subreddit = config_subreddit /\ is_removed(item) THEN "skip"
    ELSE IF item.kind = "Submission"
         THEN IF is_selfpromotion(item) THEN "selfpromo_posts" ELSE "other_posts"
    ELSE IF item.kind = "Comment"
         THEN IF item.is_submitter /\ is_selfpromotion(item.submission)
              THEN "ignored_comments"
              ELSE IF is_selfpromotion_comment(item) THEN "selfpromo_comments"
              ELSE "other_comments"
    ELSE "unknown"

RECURSIVE tally(_, _, _)
\* the loop of read_history over the listing from position i
tally(items, i, history) ==
    IF i > Len(items) THEN history
    ELSE LET b == bucket(items[i]) IN
         IF b = "skip" THEN tally(items, i + 1, history)
         ELSE LET h == [history EXCEPT !.found_items = @ + 1] IN
              IF b = "unknown" THEN tally(items, i + 1, h)
              ELSE tally(items, i + 1, [h EXCEPT ![b] = @ + 1])

\* read_history(reddit, config, user), on the listing user.new()
read_history(listing) == tally(FirstN(listing, config_history), 1, EmptyHistory)

\* round(n / d, 2) in hundredths, ties to even
Round2(n, d) ==
    LET q == (100 * n) \div d
        r == (100 * n) % d
    IN  IF 2 * r > d THEN q + 1
        ELSE IF 2 * r < d THEN q
        ELSE IF q % 2 = 0 THEN q ELSE q + 1

\* check_sp_ratio(reddit, config, post), on the listing post.author.new()
check_sp_ratio(post, listing) ==
    LET history == read_history(listing)
        denominator == history.selfpromo_posts + history.other_posts + history.other_comments
    IN  IF denominator = 0
        THEN [status |-> "ZeroDivisionError", history |-> history,
              denominator |-> denominator, ratio |-> 0, api |-> <<>>, log |-> <<>>]
        ELSE LET ratio == Round2(history.selfpromo_posts, denominator)
                 r == IF ratio > threshold
                      THEN report(post, "Possible excessive self-promotion")
                      ELSE [api |-> <<>>, log |-> <<>>]
             IN  [status |-> "returned", history |-> history,
                  denominator |-> denominator, ratio |-> ratio,
                  api |-> r.api, log |-> <<"Ratio">> \o r.log]

-----------------------------------------------------------------------------
(* RatioSpec: check_sp_ratio run on a drawn activity listing *)

Submission(flair, oc, is_self, title, url, subreddit, removed) ==
    [kind |-> "Submission", subreddit |-> subreddit, removed |-> removed,
     banned_by |-> IF removed THEN "mod" ELSE None,
     is_original_content |-> oc, link_flair_text |-> flair, is_self |-> is_self,
     title |-> title, url |-> url, selftext |-> {},
     is_video |-> FALSE, is_reddit_media_domain |-> FALSE]

Comment(is_submitter, parent, body, subreddit, removed) ==
    [kind |-> "Comment", subreddit |-> subreddit, removed |-> removed,
     banned_by |-> IF removed THEN "mod" ELSE None,
     is_submitter |-> is_submitter, submission |-> parent, body |-> body]

FanartLink == Submission("Fanart", FALSE, FALSE, {"art"}, {"i.redd.it"}, config_subreddit, FALSE)
PlainSelf == Submission("Discussion", FALSE, TRUE, {"thoughts"}, {"reddit.com"}, config_subreddit, FALSE)

Items ==
    { FanartLink,
      PlainSelf,
      Submission("Question", TRUE, TRUE, {"help"}, {"reddit.com"}, config_subreddit, FALSE),
      Submission("Question", FALSE, TRUE, {"I MADE"}, {"reddit.com"}, config_subreddit, FALSE),
      Submission("Discussion", FALSE, TRUE, {"I MADE"}, {"reddit.com"}, config_subreddit, FALSE),
      Submission("Discussion", FALSE, FALSE, {"look"}, {"IMGUR.COM"}, config_subreddit, FALSE),
      Submission("Fanart", FALSE, FALSE, {"art"}, {"i.redd.it"}, config_subreddit, TRUE),
      Submission("Discussion", FALSE, TRUE, {"thoughts"}, {"reddit.com"}, "other", TRUE),
      Comment(TRUE, FanartLink, {"thanks"}, config_subreddit, FALSE),
      Comment(FALSE, PlainSelf, {"PATREON.COM"}, config_subreddit, FALSE),
      Comment(FALSE, PlainSelf, {"nice"}, config_subreddit, FALSE),
      [kind |-> "Message", subreddit |-> "other", removed |-> FALSE, banned_by |-> None] }

\* the thresholds the check is run with: the configured 0.5, and 0.33
Thresholds == {config_threshold, 33}

RatioInit ==
    /\ \E n \in 0..MaxActivity : activity \in [1..n -> Items]
    /\ threshold \in Thresholds
    /\ verdict = <<>>
    /\ posts = <<NewPost(1, "u1", "Fanart", 0)>>
    /\ page = posts
    /\ now = 0
    /\ DEBUG \in BOOLEAN
    /\ checked = <<>>
    /\ pc = "ratio"
    /\ idx = 1
    /\ processed = [i \in 1..1 |-> 0]
    /\ calls = NoCalls(1)
    /\ last = NoResult
    /\ moderated = 0
    /\ category = None
    /\ scans = <<>>
    /\ outcome = NoOutcome

\* check_sp_ratio(reddit, config, post) is called on the post
CheckRatio ==
    /\ pc = "ratio"
    /\ outcome = NoOutcome
    /\ \E r \in {check_sp_ratio(page[1], activity)} :
         /\ outcome' = r
         /\ calls' = Tally(calls, r.api, 1)
    /\ UNCHANGED <<posts, now, DEBUG, checked, page, pc, idx, processed, last,
                   moderated, category, scans, threshold, activity, verdict>>

RatioNext == CheckRatio

RatioSpec == RatioInit /\ [][RatioNext]_vars

\* C5: when selfpromo_posts + other_posts + other_comments is 0, check_sp_ratio
\* takes the ratio as 0 and completes without failing and without reporting
C5_ZeroDenominatorIsRatioZero ==
    (outcome.status /= None /\ outcome.denominator = 0)
        => /\ outcome.status = "returned"
           /\ outcome.ratio = 0
           /\ outcome.api = <<>>

-----------------------------------------------------------------------------
(* ClassifySpec: is_selfpromotion applied to a drawn post *)

PostFlairs ==
    {"OC Fanart", "Fanart", "Fanart Misc", "Question", "News", "Rewatch",
     "Official Media", "Clip", "Discussion", None}

Titles == {{"thoughts"}, {"I MADE"}, {"sketch"}, {"original"}}

Urls == {{"reddit.com"}, {"imgur.com"}, {"IMGUR.COM"}, {"youtu.be"}, {"deviantart.com"}}

Selftexts == {{}, {"artstation.com"}}

\* the posts is_selfpromotion is applied to
DrawnPosts ==
    { [kind |-> "Submission", subreddit |-> sub, removed |-> FALSE, banned_by |-> None,
       is_original_content |-> oc, link_flair_text |-> flair, is_self |-> self,
       title |-> title, url |-> url, selftext |-> text,
       is_video |-> media = "video", is_reddit_media_domain |-> media = "reddit"] :
         sub \in {config_subreddit, "other"}, oc \in BOOLEAN, flair \in PostFlairs,
         self \in BOOLEAN, title \in Titles, url \in Urls, text \in Selftexts,
         media \in {"none", "video", "reddit"} }

ClassifyInit ==
    /\ activity \in {<<post>> : post \in DrawnPosts}
    /\ verdict = <<>>
    /\ posts = <<>>
    /\ page = <<>>
    /\ now = 0
    /\ DEBUG = FALSE
    /\ checked = <<>>
    /\ pc = "classify"
    /\ idx = 1
    /\ processed = <<>>
    /\ calls = NoCalls(0)
    /\ last = NoResult
    /\ moderated = 0
    /\ category = None
    /\ scans = <<>>
    /\ threshold = config_threshold
    /\ outcome = NoOutcome

\* is_selfpromotion(item) is called, as read_history calls it (line 167)
Classify ==
    /\ pc = "classify"
    /\ verdict = <<>>
    /\ verdict' = <<is_selfpromotion(activity[1])>>
    /\ UNCHANGED <<posts, now, DEBUG, botVars, moderated, category, scans,
                   threshold, activity, outcome>>

ClassifyNext == Classify

ClassifySpec == ClassifyInit /\ [][ClassifyNext]_vars

\* the tags for which is_selfpromotion has a `return False`
Excluded == {"Question", "News", "Rewatch", "Official Media", "Clip"}

\* C14: is_selfpromotion returns False for every post whose tag is Question,
\* News, Rewatch, Official Media or Clip, whatever the originality flag, the
\* title and the url or body
C14_ExcludedTagNeverSelfPromotion ==
    (verdict /= <<>> /\ activity[1].link_flair_text \in Excluded)
        => verdict = <<FALSE>>

\* C15: for a post without the originality flag whose tag is Question (or
\* another excluded tag), is_selfpromotion returns False for every title and
\* every url
C15_ExcludedTagOverridesText ==
    (/\ verdict /= <<>>
     /\ ~activity[1].is_original_content
     /\ activity[1].link_flair_text \in Excluded)
        => verdict = <<FALSE>>

\* a Question post with an authorship phrase in the title and an imgur link
C15_Witness ==
    /\ verdict = <<FALSE>>
    /\ ~activity[1].is_original_content
    /\ activity[1].link_flair_text = "Question"
    /\ "I MADE" \in activity[1].title
    /\ "imgur.com" \in activity[1].url

\* the items user.new(limit=max_history) delivers
Seen == FirstN(activity, config_history)

\* a removed or banned item of the monitored subreddit
RemovedInArea(item) ==
    item.subreddit = config_subreddit /\ (item.removed \/ item.banned_by /= None)

IsPostOrComment(item) == item.kind \in {"Submission", "Comment"}

Sum5(h) ==
    h.selfpromo_posts + h.other_posts + h.selfpromo_comments
        + h.ignored_comments + h.other_comments

\* C13: read_history counts no removed item of the monitored subreddit in any
\* bucket, and counts the removed items of other subreddits like the live ones:
\* the buckets add up to the posts and comments that are live or were removed
\* elsewhere
C13_RemovedInAreaNeverCounted ==
    outcome.status /= None =>
        Sum5(outcome.history) =
            Cardinality({i \in 1..Len(Seen) :
                /\ IsPostOrComment(Seen[i])
                /\ \/ ~(Seen[i].removed \/ Seen[i].banned_by /= None)
                   \/ Seen[i].subreddit /= config_subreddit})

\* a listing of a removed post of the subreddit and a removed post of another
\* subreddit: one item is counted
C13_Witness ==
    /\ outcome.status /= None
    /\ Len(Seen) = 2
    /\ \E i \in 1..2 : RemovedInArea(Seen[i])
    /\ \E i \in 1..2 : Seen[i].removed /\ Seen[i].subreddit /= config_subreddit
    /\ Sum5(outcome.history) = 1

\* C16: in non-dry mode check_sp_ratio reports the post exactly when
\* selfpromo_posts / (selfpromo_posts + other_posts + other_comments) exceeds
\* the threshold; the rounding to two decimals does not change the decision
C16_ReportsIffRatioExceeds ==
    (outcome.status = "returned" /\ ~DEBUG) =>
        ((outcome.api /= <<>>) <=>
            (100 * outcome.history.selfpromo_posts > threshold * outcome.denominator))

\* C17: every item of the listing that is not skipped counts as found; each
\* post or comment among them is in exactly one bucket, so the five buckets
\* add up to the found posts and comments; an item that is neither is in no
\* bucket and the scan goes on after it; a comment of the post's author under
\* a self-promotion post is in ignored_comments only, outside the numerator
\* and the denominator of the ratio
C17_OneBucketPerItem ==
    outcome.status /= None =>
        LET h == outcome.history
            found == {i \in 1..Len(Seen) : ~RemovedInArea(Seen[i])}
            own == {i \in found : /\ Seen[i].kind = "Comment"
                                  /\ Seen[i].is_submitter
                                  /\ is_selfpromotion(Seen[i].submission)}
        IN  /\ h.found_items = Cardinality(found)
            /\ Sum5(h) = Cardinality({i \in found : IsPostOrComment(Seen[i])})
            /\ h.ignored_comments = Cardinality(own)
            /\ outcome.denominator = Sum5(h) - h.ignored_comments - h.selfpromo_comments

\* a listing with the author's own comment under their fanart post, an item
\* that is neither post nor comment, and a post after it that is counted
C17_Witness ==
    /\ outcome.status = "returned"
    /\ Len(Seen) = 3
    /\ Seen[1].kind = "Comment" /\ Seen[1].is_submitter
    /\ ~IsPostOrComment(Seen[2])
    /\ Seen[3].kind = "Submission"
    /\ outcome.history.ignored_comments = 1
    /\ outcome.history.found_items = 3
    /\ outcome.denominator = 1

-----------------------------------------------------------------------------
(* Claims about the poll loop *)

\* C1: within one run no feed item has its checks run more than once
C1_ProcessedAtMostOnce ==
    \A i \in DOMAIN processed : processed[i] <= 1

\* C2: at most one remedial call (post.report or post.mod.remove) is issued on
\* any one item during a run
C2_AtMostOneAction ==
    \A i \in DOMAIN calls : calls[i]["mod.remove"] + calls[i]["report"] <= 1

\* C10: in dry mode neither post.report, post.mod.remove nor
\* post.mod.send_removal_message is ever called, although the decision to
\* remove is reached and logged
C10_DryModeNoCalls ==
    DEBUG => /\ calls = NoCalls(MaxPosts)
             /\ last.api = <<>>
             /\ (last.invoked => "Not removing in debug mode" \in Range(last.log))

C10_Witness ==
    DEBUG /\ last.invoked /\ last.cat = "fanart" /\ last.count > RepeatLimit

\* C9: remove, invoked on a post that is removed or banned, issues neither the
\* removal call nor the removal notice; it only logs
C9_NoCallOnRemovedPost ==
    (last.invoked /\ (last.post.removed \/ last.post.banned_by /= None))
        => /\ last.api = <<>>
           /\ \/ "Post already removed" \in Range(last.log)
              \/ "Not removing in debug mode" \in Range(last.log)

\* the post was removed by a moderator before the bot fetched it, and the
\* author's three other fanart posts make the check invoke remove on it
C9_Witness ==
    /\ ~DEBUG
    /\ last.invoked
    /\ last.post.banned_by = "mod"
    /\ last.count > RepeatLimit
    /\ "Post already removed" \in Range(last.log)

\* C11: after the cut at the end of a poll iteration, checked holds at most
\* 3 * posts_per_run entries
C11_PrunedToThreePages ==
    pc = "fetch" => Len(checked) <= 3 * posts_per_run

\* a poll has ended with checked full and an earlier processed post cut from it
C11_Witness ==
    /\ pc = "fetch"
    /\ Len(checked) = 3 * posts_per_run
    /\ \E i \in DOMAIN processed : processed[i] >= 1 /\ i \notin Range(checked)

\* the loop of main stands at a post of the page that is in checked
AtCheckedPost == pc = "loop" /\ idx <= Len(page) /\ page[idx].id \in Range(checked)

\* C12: a post that is in checked when the loop comes to it is not processed
\* again: no check runs for it, no call is issued on it, it is not appended
\* again, and the loop leaves the subreddit as it is
C12_CheckedPostNotReprocessed ==
    [][AtCheckedPost => /\ checked' = checked
                        /\ processed' = processed
                        /\ calls' = calls
                        /\ last' = last
                        /\ (idx' /= idx => posts' = posts)]_vars

\* the loop has passed over a fanart post it had processed in an earlier poll
C12_Witness ==
    /\ pc = "loop" /\ Len(page) = 1 /\ idx > Len(page)
    /\ page[1].link_flair_text = "Fanart"
    /\ page[1].id \in Range(checked)
    /\ processed[page[1].id] = 1
    /\ last = NoResult

\* C20: in every state of main, also in mid-poll before the cut, checked
\* holds no post twice and at most 4 * posts_per_run entries
C20_NoDuplicateAtMostFourPages ==
    /\ \A i, j \in 1..Len(checked) : i /= j => checked[i] /= checked[j]
    /\ Len(checked) <= 4 * posts_per_run

\* mid-poll, a fourth page of entries has been appended to a full list
C20_Witness ==
    /\ pc = "loop"
    /\ Len(checked) = 4 * posts_per_run

-----------------------------------------------------------------------------
(* Claims about the frequency checks (FreqSpec, ScenarioSpec) *)

\* what the claims call a non-removed, category-tagged submission inside the window
Live(s) == ~s.removed /\ s.banned_by = None

Tagged(cat, s) == s.subreddit = config_subreddit /\ s.link_flair_text = Tag(cat)

InWindow(cat, s, t) == t - s.created_utc <= Horizon(cat)

WindowCount(cat, author, t) ==
    Cardinality({i \in 1..Len(posts) :
        /\ posts[i].author = author /\ ~posts[i].deleted
        /\ Live(posts[i]) /\ Tagged(cat, posts[i]) /\ InWindow(cat, posts[i], t)})

\* the author's listing is delivered newest first
NewestFirst ==
    \A i, j \in 1..Len(posts) :
        i < j => posts[i].created_utc <= posts[j].created_utc

\* four fanart posts of one author, of days 0, 2, 5 and of today, the check
\* run on today's post, which was live when it was fetched
FanartDays(day0_removed) ==
    /\ Len(posts) = 4
    /\ \A i \in 1..4 : /\ posts[i].link_flair_text = "Fanart"
                       /\ posts[i].subreddit = config_subreddit
                       /\ posts[i].author = "u1"
    /\ posts[1].created_utc = FreqNow - FanartWindow
    /\ posts[2].created_utc = FreqNow - FanartWindow + 2 * QuartersPerDay
    /\ posts[3].created_utc = FreqNow - FanartWindow + 5 * QuartersPerDay
    /\ posts[4].created_utc = FreqNow
    /\ (posts[1].removed \/ posts[1].banned_by /= None) = day0_removed
    /\ Live(posts[2]) /\ Live(posts[3])
    /\ Len(scans) >= 1
    /\ scans[1].cat = "fanart"
    /\ scans[1].post.id = 4
    /\ Live(scans[1].post)

ScenarioB == FanartDays(FALSE)
ScenarioC == FanartDays(TRUE)

RemovalOf(i) == <<[op |-> "mod.remove", id |-> i], [op |-> "mod.send_removal_message", id |-> i]>>

\* C3 as stated: in Scenario C (day-0 post removed, two prior fanart posts
\* left in the window) the check on today's post takes no action
C3_ScenarioC_NoAction ==
    ScenarioC => ~scans[1].invoked /\ scans[1].api = <<>>

\* C3 amended: in Scenario C the count includes today's post, reaches 3 at the
\* day-2 post, and remove is invoked on today's post
C3_ScenarioC_Removes ==
    ScenarioC => /\ scans[1].invoked
                 /\ scans[1].count = 3
                 /\ scans[1].counted = {4, 3, 2}
                 /\ scans[1].api = IF DEBUG THEN <<>> ELSE RemovalOf(4)

C3_Witness == ScenarioC /\ ~DEBUG /\ scans[1].api = RemovalOf(4)

\* C4 as stated: in Scenario B today's post is removed and the reason cites
\* the day-5 post
C4_ScenarioB_CitesDay5 ==
    ScenarioB => /\ scans[1].invoked
                 /\ scans[1].reason.id = 3

\* C4 amended: in Scenario B remove is invoked on today's post and the reason
\* cites the day-2 post, at which the count (today's post included) passes 2
C4_ScenarioB_CitesDay2 ==
    ScenarioB => /\ scans[1].invoked
                 /\ scans[1].count = 3
                 /\ scans[1].reason = [text |-> "Recent fanart", id |-> 2]
                 /\ scans[1].api = IF DEBUG THEN <<>> ELSE RemovalOf(4)

C4_Witness == ScenarioB /\ ~DEBUG /\ scans[1].reason.id = 2

\* C6: with the submissions delivered newest first, a scan that ends without
\* invoking remove has counted every in-area, non-removed, tagged submission
\* of the author inside the window
C6_EarlyExitLosesNothing ==
    (scans /= <<>> /\ NewestFirst /\ ~last.invoked)
        => last.count = WindowCount(last.cat, last.post.author, now)

\* the scan counted two submissions, one of them exactly as old as the
\* window, and ended at the next, a quarter of an hour older
C6_Witness ==
    /\ scans /= <<>> /\ NewestFirst /\ ~last.invoked
    /\ last.exit = "window"
    /\ last.count = 2
    /\ \E i \in last.counted : now - posts[i].created_utc = Horizon(last.cat)

\* C7: whatever the history and its order, no scan increments its count for a
\* submission older than the window of the category
C7_NeverCountsOutOfWindow ==
    \A k \in 1..Len(scans) :
        \A i \in scans[k].counted : InWindow(scans[k].cat, posts[i], now)

\* a history not in order of age: the scan counted a submission, ended at an
\* older one and so never reached a later-listed submission inside the window
C7_Witness ==
    /\ scans /= <<>> /\ ~NewestFirst
    /\ last.exit = "window"
    /\ last.counted /= {}
    /\ \E i, k \in 1..Len(posts) :
          /\ k < i
          /\ \A j \in last.counted : i < j
          /\ ~InWindow(last.cat, posts[i], now)
          /\ Live(posts[k]) /\ Tagged(last.cat, posts[k]) /\ InWindow(last.cat, posts[k], now)

\* C8 as stated: two runs of the scan for the same post, with no new
\* submission in between, give the same count
C8_SameCountTwice ==
    Len(scans) = 2 => scans[1].count = scans[2].count

\* C8 amended: the two counts are the same unless the first run removed the
\* post, that is in dry mode, when the first count did not pass the limit, or
\* when the post was already removed; after a removal the post is passed over
\* and the second run counts less
C8_SameCountUnlessRemoved ==
    Len(scans) = 2 =>
        IF DEBUG \/ ~scans[1].invoked \/ ~Live(scans[1].post)
        THEN scans[1].count = scans[2].count
        ELSE scans[2].count < scans[1].count \/ scans[2].exit = "limit"

C8_Witness ==
    /\ Len(scans) = 2
    /\ DEBUG /\ scans[1].invoked
    /\ scans[1].count = scans[2].count


\* C19: a frequency check acts on the post it was given, and on no other: over
\* a run of the checks every other submission of the history is left as it
\* was, every call issued is on that post, remove is called at most once, and
\* the scan ends where it calls remove
C19_OnlyThePostIsActedOn ==
    [][scans' /= scans =>
          /\ Len(posts') = Len(posts)
          /\ \A i \in 1..Len(posts) : i /= page[1].id => posts'[i] = posts[i]
          /\ \A k \in 1..Len(last'.api) : last'.api[k].id = page[1].id
          /\ Cardinality({k \in 1..Len(last'.api) : last'.api[k].op = "mod.remove"}) <= 1
          /\ (last'.invoked => last'.exit = "limit")]_vars

\* the check removed the post and left live the submissions it had counted
\* with it, one of them newer than the post
C19_Witness ==
    /\ ~DEBUG
    /\ scans /= <<>>
    /\ last.api /= <<>>
    /\ posts[last.post.id].banned_by = BotName
    /\ \E i \in last.counted : i > last.post.id /\ Live(posts[i])

\* a poll has ended and every post of the subreddit has been processed
PollEnded == pc = "fetch" /\ \A i \in 1..Len(posts) : processed[i] >= 1

\* C18: in non-dry mode, with at most posts_per_run new posts between polls
\* and no other actor removing or restoring posts, at the end of every poll
\* no author has more than two non-removed in-area submissions of one
\* category inside the window of that category
C18_AtMostTwoLiveInWindow ==
    PollEnded =>
        \A a \in Authors : \A k \in 1..Len(Categories) :
            WindowCount(Categories[k], a, now) <= 2

\* the bot has removed one fanart post, an older fanart post has left the
\* window since, and two live fanart posts are inside the window
C18_Witness ==
    /\ PollEnded
    /\ WindowCount("fanart", "u1", now) = 2
    /\ \E i \in 1..Len(posts) :
          posts[i].link_flair_text = "Fanart" /\ posts[i].banned_by = BotName
    /\ \E i \in 1..Len(posts) :
          /\ posts[i].link_flair_text = "Fanart" /\ Live(posts[i])
          /\ ~InWindow("fanart", posts[i], now)

====
